---- MODULE Spec2Model ----
(***************************************************************************)
(* Verification model of the kyudo form analyzer (VideoAnalyzer.tsx):      *)
(* the live analysis loop with its in-flight guard, the capture buffer     *)
(* storedFramesRef, the evaluation effect, and the replay scheduler        *)
(* (startReplay / loop / toggleReplayPause / handleSeek / stopReplay and   *)
(* the speed buttons), with the scorer evaluateForm and the pose geometry   *)
(* of PoseOverlay.tsx (calcAngle, calcKyudoAngles).                        *)
(*                                                                         *)
(* Time.  Video time and the animation-frame clock are in milliseconds.    *)
(* The speed multipliers 0.25, 0.5, 1.0, 2.0 are kept as multiples of 1/4, *)
(* so the virtual timestamp lastFrameTime is kept in quarter-milliseconds  *)
(* (Scale * ms) and every product realElapsed * speed is exact.            *)
(*                                                                         *)
(* Handlers run to completion (one JavaScript task each); React state is   *)
(* read at its latest value and the evaluation effect is run at the end of *)
(* every handler that changes one of its dependencies.  The refs of the    *)
(* <video> and <canvas> elements are always set after mount and            *)
(* getContext('2d') of a canvas only ever used with '2d' is never null, so *)
(* the corresponding early returns are not taken.                          *)
(***************************************************************************)
EXTENDS Integers, Sequences, FiniteSets, Bags, TLC

\* ---- bounds of the model -------------------------------------------------
MaxSessions == 2     \* video loads (the first mount included)
Duration    == 2     \* length of the video, ms
MaxFrames   == 3     \* frames the detector can deliver in one session
MaxNow      == 3     \* last animation-frame timestamp, ms
MaxGap      == 2     \* longest gap between two replay ticks, ms

\* ---- program constants -----------------------------------------------------
Scale  == 4                  \* 1.0x, in units of 0.25x
SPEEDS == {1, 2, 4, 8}       \* 0.25x, 0.5x, 1.0x, 2.0x

NoTime == -1                 \* lastRealTime === null

VARIABLES
  session,          \* number of runs of the setup effect (= Pose instances made)
  status,           \* 'loading' | 'playing' | 'done' | 'error'
  videoTime,        \* video.currentTime * 1000
  videoPaused,      \* video.paused
  videoErr,         \* the video element has raised 'error' for the current source
  procLoops,        \* bag of live startProcessing loops [pose, pc, ref]
  rafRef,           \* rafRef.current: "null" or "handle"
  procRef,          \* procRef.current, the in-flight guard
  poseLandmarks,    \* results.poseLandmarks of the results the detector delivers
  canvas,           \* the canvas: [image, pose], what was painted on it last
  frameRef,         \* frameRef.current
  storedFramesRef,  \* storedFramesRef.current: sequence of [frame, timeMs]
  frameAngles,      \* frameAngles state: sequence of [frame, ...angles]
  displayCount,
  evaluation,       \* <<>> (null) or <<report>>
  totalFrames,
  isReplaying,
  replayPaused,
  replaySpeed,
  replayFrame,
  replayIdxRef,
  replayRafRef,     \* replayRafRef.current: "null" or "handle"
  replayPausedRef,
  replayLoop,       \* <<>> or <<closure>> of the pending startReplay loop
  now,              \* timestamp of the latest animation frame
  lastOp            \* history: the handler that ran last, with its argument

videoVars  == <<videoTime, videoPaused, videoErr>>
procVars   == <<procLoops, rafRef, procRef>>
bufVars    == <<poseLandmarks, frameRef, storedFramesRef, frameAngles, displayCount>>
evalVars   == <<evaluation, totalFrames>>
replayVars == <<isReplaying, replayPaused, replayPausedRef, replayIdxRef,
                replayRafRef, replayLoop>>
vars == <<session, status, videoVars, procVars, bufVars, evalVars, replayVars,
          replaySpeed, replayFrame, canvas, now, lastOp>>

Op(name, arg) == [op |-> name, arg |-> arg]

\* ---- the video element -----------------------------------------------------
\* video.ended: the playback position is at the end of the media
VideoEnded == videoTime = Duration

\* ---- capture buffer --------------------------------------------------------
\* stored[i] of the code (0-based)
StoredAt(i) == storedFramesRef[i + 1]

\* stored[idx]?.timeMs ?? 0
TimeMsOr0(idx) ==
  IF idx >= 0 /\ idx < Len(storedFramesRef) THEN StoredAt(idx).timeMs ELSE 0

\* ---- statistics helpers ----------------------------------------------------
\* Numbers.  A metric of an angle record is <<>> (null) or <<v>>: an angle in
\* tenths of a degree, kuchiwariOffset in thousandths of the frame height.  A
\* mean or deviation is an integer in thousandths of that unit (1/10000 degree,
\* 1/1000000 of the frame height) and a score before Math.round an integer in
\* 1/10000 point, so that 100 points are Full.  Quotients are taken with \div:
\* what lies below these units is cut off.
Full == 1000000

Min2(a, b) == IF a <= b THEN a ELSE b
Max2(a, b) == IF a >= b THEN a ELSE b
Abs(a) == IF a < 0 THEN -a ELSE a

RECURSIVE SumSeq(_)
SumSeq(v) == IF v = <<>> THEN 0 ELSE Head(v) + SumSeq(Tail(v))

RECURSIVE MaxSeq(_)
MaxSeq(v) == IF Len(v) = 1 THEN Head(v) ELSE Max2(Head(v), MaxSeq(Tail(v)))

RECURSIVE MinSeq(_)
MinSeq(v) == IF Len(v) = 1 THEN Head(v) ELSE Min2(Head(v), MinSeq(Tail(v)))

\* largest r in lo .. hi with r * r <= n
RECURSIVE IsqrtIn(_, _, _)
IsqrtIn(n, lo, hi) ==
  IF lo = hi THEN lo
  ELSE LET mid == (lo + hi + 1) \div 2
       IN  IF mid * mid <= n THEN IsqrtIn(n, mid, hi) ELSE IsqrtIn(n, lo, mid - 1)

\* one more decimal digit of a square root: from <<r, rem>> with rem = n - r*r
\* to <<10r + d, 100 rem - (20r + d) d>> for the largest digit d that fits
SqrtDigit(s) ==
  LET d == CHOOSE x \in 0 .. 9 :
             /\ (20 * s[1] + x) * x <= 100 * s[2]
             /\ \A y \in (x + 1) .. 9 : (20 * s[1] + y) * y > 100 * s[2]
  IN  << 10 * s[1] + d, 100 * s[2] - (20 * s[1] + d) * d >>

\* Math.sqrt(n) in hundredths, for an integer n
Sqrt100(n) ==
  LET r == IsqrtIn(n, 0, 46340)
  IN  SqrtDigit(SqrtDigit(<< r, n - r * r >>))[1]

\* v.reduce((a,b) => a+b,0)/v.length
mean(v) == IF Len(v) = 0 THEN 0 ELSE (SumSeq(v) * 1000) \div Len(v)

\* Math.sqrt(v.reduce((a,b) => a+(b-m)**2, 0)/v.length) with m the mean: the sum
\* of squared deviations is (n * sum(w^2) - sum(w)^2) / n for w = v - min(v),
\* which keeps the radicand an integer
stddev(v) ==
  IF Len(v) < 2 THEN 0
  ELSE LET lo == MinSeq(v)
           w  == [i \in 1 .. Len(v) |-> v[i] - lo]
           d  == Len(v) * SumSeq([i \in 1 .. Len(v) |-> w[i] * w[i]]) - SumSeq(w) * SumSeq(w)
       IN  (Sqrt100(d) * 10) \div Len(v)

\* nn(frames.map(f => f.metric)): the non-null values, in order
RECURSIVE nn(_)
nn(v) == IF v = <<>> THEN <<>> ELSE Head(v) \o nn(Tail(v))

clamp(v, lo, hi) == Min2(hi, Max2(lo, v))

\* v.slice(k)
slice(v, k) == SubSeq(v, k + 1, Len(v))

\* Math.round of a non-negative score
Round(x) == (x + 5000) \div 10000

\* a whole number of degrees or points, in the unit of means and scores
Deg(x) == x * 10000

Item(label, score, comment) ==
  << [label |-> label, score |-> Round(clamp(score, 0, Full)), comment |-> comment] >>

\* ---- evaluateForm ----------------------------------------------------------
\* An item is [label, score, comment]; the label is the criterion, the comment
\* the branch of the comment conditional that was taken ("ok" is the branch of
\* the check mark).  The fixed detail and ideal texts are left out.
Col(frames, metric) == nn([i \in 1 .. Len(frames) |-> frames[i][metric]])

\* left elbow: peak of the valid samples
ItemLeftElbow_Mean(leVals) ==
  IF Len(leVals) > 5
    THEN LET peak == mean(leVals)
             score ==
               IF peak >= Deg(160) /\ peak <= Deg(172) THEN Full
               ELSE IF peak >= Deg(150) /\ peak < Deg(160) THEN Deg(60) + (peak - Deg(150)) * 4
               ELSE IF peak > Deg(172) /\ peak <= Deg(178) THEN Full - (peak - Deg(172)) * 10
               ELSE IF peak > Deg(178) THEN Deg(40)
               ELSE clamp((peak - Deg(120)) * 2, 0, Deg(60))
             comment ==
               IF peak >= Deg(160) /\ peak <= Deg(172) THEN "ok"
               ELSE IF peak > Deg(178) THEN "bad_overextended"
               ELSE IF peak > Deg(172) THEN "warn_overextended"
               ELSE IF peak >= Deg(150) THEN "warn_short"
               ELSE "bad_bent"
         IN  Item("leftElbow", score, comment)
    ELSE <<>>

ItemLeftElbow(leVals) ==
  IF Len(leVals) > 5
    THEN LET peak == MaxSeq(leVals) * 1000
             score ==
               IF peak >= Deg(160) /\ peak <= Deg(172) THEN Full
               ELSE IF peak >= Deg(150) /\ peak < Deg(160) THEN Deg(60) + (peak - Deg(150)) * 4
               ELSE IF peak > Deg(172) /\ peak <= Deg(178) THEN Full - (peak - Deg(172)) * 10
               ELSE IF peak > Deg(178) THEN Deg(40)
               ELSE clamp((peak - Deg(120)) * 2, 0, Deg(60))
             comment ==
               IF peak >= Deg(160) /\ peak <= Deg(172) THEN "ok"
               ELSE IF peak > Deg(178) THEN "bad_overextended"
               ELSE IF peak > Deg(172) THEN "warn_overextended"
               ELSE IF peak >= Deg(150) THEN "warn_short"
               ELSE "bad_bent"
         IN  Item("leftElbow", score, comment)
    ELSE <<>>

\* right elbow: mean of the later half
ItemRightElbow(reVals) ==
  IF Len(reVals) > 5
    THEN LET late == slice(reVals, Len(reVals) \div 2)
             avg  == mean(late)
             score ==
               IF avg >= Deg(80) /\ avg <= Deg(110) THEN Full
               ELSE IF avg > Deg(110) /\ avg <= Deg(125) THEN Full - (avg - Deg(110)) * 3
               ELSE IF avg > Deg(125) THEN clamp(Full - (avg - Deg(110)) * 5, 0, Deg(55))
               ELSE clamp(Deg(80) + (avg - Deg(70)) * 2, 0, Deg(80))
             comment ==
               IF avg >= Deg(80) /\ avg <= Deg(110) THEN "ok"
               ELSE IF avg > Deg(125) THEN "bad_forward"
               ELSE IF avg > Deg(110) THEN "warn_forward"
               ELSE "warn_check"
         IN  Item("rightElbow", score, comment)
    ELSE <<>>

\* left / right shoulder symmetry
ItemSymmetry(lsVals, rsVals) ==
  IF Len(lsVals) > 5 /\ Len(rsVals) > 5
    THEN LET diff    == Abs(mean(lsVals) - mean(rsVals))
             avgStab == (stddev(lsVals) + stddev(rsVals)) \div 2
             score   == (clamp(Full - diff * 3, 0, Full) * 6) \div 10
                          + (clamp(Full - avgStab * 3, 0, Full) * 4) \div 10
             comment ==
               IF diff <= Deg(8) /\ avgStab <= Deg(10) THEN "ok"
               ELSE IF diff <= Deg(15) THEN "warn_uneven"
               ELSE "bad_uneven"
         IN  Item("symmetry", score, comment)
    ELSE <<>>

\* hip line
ItemHip(hipVals) ==
  IF Len(hipVals) > 5
    THEN LET m == mean(hipVals)
             d == stddev(hipVals)
             score == (clamp(Full - m * 9, 0, Full) * 65) \div 100
                        + (clamp(Full - d * 6, 0, Full) * 35) \div 100
             comment ==
               IF m <= Deg(4) /\ d <= Deg(4) THEN "ok"
               ELSE IF m <= Deg(7) THEN "warn_tilt"
               ELSE IF m <= Deg(13) THEN "bad_tilt"
               ELSE "bad_collapsed"
         IN  Item("hipTilt", score, comment)
    ELSE <<>>

\* spine
ItemSpine(spineVals) ==
  IF Len(spineVals) > 5
    THEN LET m == mean(spineVals)
             d == stddev(spineVals)
             score == (clamp(Full - m * 7, 0, Full) * 65) \div 100
                        + (clamp(Full - d * 5, 0, Full) * 35) \div 100
             comment ==
               IF m <= Deg(4) /\ d <= Deg(5) THEN "ok"
               ELSE IF m <= Deg(8) THEN "warn_tilt"
               ELSE IF m <= Deg(14) THEN "bad_tilt"
               ELSE "bad_collapsed"
         IN  Item("spineTilt", score, comment)
    ELSE <<>>

\* kaiSec = frames.length/30*0.33 against 3 and 1.5
kaiBonus(n) == IF n * 33 >= 9000 THEN 0 ELSE IF n * 33 >= 4500 THEN -10 ELSE -25

\* stability of the hold: the late slices of both elbows
ItemHold(leVals, reVals, n) ==
  LET lateLE == slice(leVals, (Len(leVals) * 55) \div 100)
      lateRE == slice(reVals, (Len(reVals) * 55) \div 100)
  IN  IF Len(lateLE) > 5 /\ Len(lateRE) > 5
        THEN LET avgStd == (stddev(lateLE) + stddev(lateRE)) \div 2
                 score  == clamp(Full - avgStd * 5 + Deg(kaiBonus(n)), 0, Full)
                 comment ==
                   IF avgStd <= Deg(4) /\ kaiBonus(n) = 0 THEN "ok"
                   ELSE IF kaiBonus(n) = -25 THEN "bad_hayake"
                   ELSE IF avgStd <= Deg(9) THEN "warn_shake"
                   ELSE "bad_unstable"
             IN  Item("hold", score, comment)
        ELSE <<>>

\* ItemSmooth with the guard of the other criteria
ItemSmooth_Over5(leVals) ==
  IF Len(leVals) > 5
    THEN LET deltas == [i \in 1 .. Len(leVals) - 1 |-> Abs(leVals[i + 1] - leVals[i])]
             score  == clamp(Full - stddev(deltas) * 18
                               - Max2(0, mean(deltas) - 15000) * 10, 0, Full)
             comment ==
               IF score >= Deg(82) THEN "ok"
               ELSE IF score >= Deg(62) THEN "warn_catch"
               ELSE "bad_catch"
         IN  Item("smooth", score, comment)
    ELSE <<>>

\* smoothness of the draw: frame-to-frame changes of the left elbow
ItemSmooth(leVals) ==
  IF Len(leVals) > 10
    THEN LET deltas == [i \in 1 .. Len(leVals) - 1 |-> Abs(leVals[i + 1] - leVals[i])]
             score  == clamp(Full - stddev(deltas) * 18
                               - Max2(0, mean(deltas) - 15000) * 10, 0, Full)
             comment ==
               IF score >= Deg(82) THEN "ok"
               ELSE IF score >= Deg(62) THEN "warn_catch"
               ELSE "bad_catch"
         IN  Item("smooth", score, comment)
    ELSE <<>>

\* monomi: the last 70% of the valid samples
ItemMonomi(monomiVals) ==
  IF Len(monomiVals) > 5
    THEN LET late == slice(monomiVals, (Len(monomiVals) * 3) \div 10)
             avg  == mean(late)
             std  == stddev(late)
             aScore ==
               IF avg >= Deg(35) /\ avg <= Deg(55) THEN Full
               ELSE IF avg >= Deg(25) /\ avg < Deg(35) THEN Deg(60) + (avg - Deg(25)) * 4
               ELSE IF avg > Deg(55) /\ avg <= Deg(68) THEN Full - (avg - Deg(55)) * 4
               ELSE IF avg < Deg(25) THEN clamp((avg * 24) \div 10, 0, Deg(60))
               ELSE clamp(Full - (avg - Deg(55)) * 6, 0, Deg(60))
             score == (aScore * 65) \div 100 + (clamp(Full - std * 5, 0, Full) * 35) \div 100
             comment ==
               IF avg >= Deg(35) /\ avg <= Deg(55) /\ std <= Deg(6) THEN "ok"
               ELSE IF avg < Deg(25) THEN "bad_shallow"
               ELSE IF avg < Deg(35) THEN "warn_shallow"
               ELSE IF avg > Deg(68) THEN "warn_deep"
               ELSE IF std > Deg(10) THEN "warn_shake"
               ELSE "warn_check"
         IN  Item("monomi", score, comment)
    ELSE <<>>

\* kuchiwari: the later half of the valid samples; avg and std are in millionths,
\* so avg 0.03 is 30000 and avg * 1000 points are avg * 10
ItemKuchiwari(kVals) ==
  IF Len(kVals) > 5
    THEN LET late == slice(kVals, Len(kVals) \div 2)
             avg  == mean(late)
             std  == stddev(late)
             pScore ==
               IF avg >= -10000 /\ avg <= 30000 THEN Full
               ELSE IF avg > 30000 /\ avg <= 70000 THEN Full - (avg - 30000) * 10
               ELSE IF avg < -10000 /\ avg >= -50000 THEN Full + (avg + 10000) * 10
               ELSE clamp(Deg(50) - Abs(avg) * 5, 0, Deg(50))
             score == (pScore * 7) \div 10 + (clamp(Full - std * 10, 0, Full) * 3) \div 10
             comment ==
               IF avg >= -10000 /\ avg <= 30000 /\ std <= 20000 THEN "ok"
               ELSE IF avg > 50000 THEN "bad_low"
               ELSE IF avg > 30000 THEN "warn_low"
               ELSE IF avg < -50000 THEN "bad_high"
               ELSE IF avg < -10000 THEN "warn_high"
               ELSE IF std > 20000 THEN "warn_shake"
               ELSE "warn_check"
         IN  Item("kuchiwari", score, comment)
    ELSE <<>>

\* the rank bands on the total; "unrated" is the dash of the empty report
Rank(total) ==
  IF total >= 90 THEN "dan4_5"
  ELSE IF total >= 78 THEN "dan3"
  ELSE IF total >= 65 THEN "dan2"
  ELSE IF total >= 52 THEN "dan1"
  ELSE IF total >= 38 THEN "kyu"
  ELSE "basics"

\* Total with Math.floor in place of Math.round
Total_Floor(items) ==
  SumSeq([i \in 1 .. Len(items) |-> items[i].score]) \div Len(items)

\* Math.round(items.reduce((a,b)=>a+b.score,0)/items.length), scores integers
Total(items) ==
  LET sum == SumSeq([i \in 1 .. Len(items) |-> items[i].score])
  IN  (2 * sum + Len(items)) \div (2 * Len(items))

\* the items pushed, in the order of the code
Items(frames) ==
  LET leVals == Col(frames, "leftElbow")
      reVals == Col(frames, "rightElbow")
  IN  ItemLeftElbow(leVals)
      \o ItemRightElbow(reVals)
      \o ItemSymmetry(Col(frames, "leftShoulder"), Col(frames, "rightShoulder"))
      \o ItemHip(Col(frames, "hipTilt"))
      \o ItemSpine(Col(frames, "spineTilt"))
      \o ItemHold(leVals, reVals, Len(frames))
      \o ItemSmooth(leVals)
      \o ItemMonomi(Col(frames, "monomiAngle"))
      \o ItemKuchiwari(Col(frames, "kuchiwariOffset"))

\* evaluateForm without the two early returns: the rank of an empty item list
\* falls through the bands
evaluateForm_NoEmptyGuard(frames) ==
  LET items == Items(frames)
  IN  IF Len(items) = 0 THEN [total |-> 0, rank |-> Rank(0), items |-> <<>>]
      ELSE [total |-> Total(items), rank |-> Rank(Total(items)), items |-> items]

evaluateForm(frames) ==
  IF Len(frames) = 0 THEN [total |-> 0, rank |-> "unrated", items |-> <<>>]
  ELSE
    LET items == Items(frames)
    IN  IF Len(items) = 0 THEN [total |-> 0, rank |-> "unrated", items |-> <<>>]
        ELSE [total |-> Total(items), rank |-> Rank(Total(items)), items |-> items]

\* ---- pose geometry (PoseOverlay.tsx) ------------------------------------------
\* A landmark is a point [x, y] with integer coordinates, in eighths of the frame
\* width and height.  results.poseLandmarks is a function from the indices the
\* detector delivered to their points: landmarks[i] is undefined (falsy) for an
\* index outside its domain.  Angles are returned in tenths of a degree, to the
\* nearest degree.
Pt(x, y) == [x |-> x, y |-> y]

\* cos((d - 0.5) degrees) * 1000 for d = 1 .. 90: the cosines that separate the
\* whole degrees from 0 to 90
CosHalf ==
  << 1000, 1000, 999, 998, 997, 995, 994, 991, 989, 986, 983, 980, 976, 972, 968,
     964, 959, 954, 948, 943, 937, 930, 924, 917, 910, 903, 895, 887, 879, 870,
     862, 853, 843, 834, 824, 814, 804, 793, 783, 772, 760, 749, 737, 725, 713,
     701, 688, 676, 663, 649, 636, 623, 609, 595, 581, 566, 552, 537, 522, 508,
     492, 477, 462, 446, 431, 415, 399, 383, 367, 350, 334, 317, 301, 284, 267,
     250, 233, 216, 199, 182, 165, 148, 131, 113, 96, 78, 61, 44, 26, 9 >>

\* largest d in lo .. hi with d = 0 or d2 / mag2 < (CosHalf[d] / 1000)^2
RECURSIVE DegIn(_, _, _, _)
DegIn(d2, mag2, lo, hi) ==
  IF lo = hi THEN lo
  ELSE LET mid == (lo + hi + 1) \div 2
       IN  IF d2 * 1000000 < CosHalf[mid] * CosHalf[mid] * mag2
             THEN DegIn(d2, mag2, mid, hi)
             ELSE DegIn(d2, mag2, lo, mid - 1)

\* Math.acos(Math.max(-1, Math.min(1, dot / Math.sqrt(mag2)))) * (180 / Math.PI),
\* in whole degrees, for mag2 > 0: the ratio is compared with the cosines of
\* CosHalf by squares, its magnitude capped at 1
AcosDeg(dot, mag2) ==
  LET deg == DegIn(Min2(dot * dot, mag2), mag2, 0, 90)
  IN  IF dot >= 0 THEN deg ELSE 180 - deg

\* Math.atan2(y, x) * (180 / Math.PI), in whole degrees
Atan2Deg(y, x) ==
  IF x = 0 /\ y = 0 THEN 0
  ELSE IF y < 0 THEN - AcosDeg(x, x * x + y * y)
  ELSE AcosDeg(x, x * x + y * y)

\* calcAngle without the test of mag: the angle of a zero vector is that of a
\* zero dot product
calcAngle_NoZeroTest(a, b, c) ==
  LET abx == a.x - b.x
      aby == a.y - b.y
      cbx == c.x - b.x
      cby == c.y - b.y
      dot == abx * cbx + aby * cby
      mag2 == (abx * abx + aby * aby) * (cbx * cbx + cby * cby)
  IN  10 * AcosDeg(dot, Max2(mag2, 1))

\* calcAngle(a, b, c): the angle at the vertex b
calcAngle(a, b, c) ==
  LET abx == a.x - b.x
      aby == a.y - b.y
      cbx == c.x - b.x
      cby == c.y - b.y
      dot == abx * cbx + aby * cby
      mag2 == (abx * abx + aby * aby) * (cbx * cbx + cby * cby)
  IN  IF mag2 = 0 THEN 0 ELSE 10 * AcosDeg(dot, mag2)

\* landmarks[i] is truthy
Seen(landmarks, i) == i \in DOMAIN landmarks

leftElbow(lm) ==
  IF Seen(lm, 11) /\ Seen(lm, 13) /\ Seen(lm, 15)
    THEN << calcAngle(lm[11], lm[13], lm[15]) >> ELSE <<>>

rightElbow(lm) ==
  IF Seen(lm, 12) /\ Seen(lm, 14) /\ Seen(lm, 16)
    THEN << calcAngle(lm[12], lm[14], lm[16]) >> ELSE <<>>

leftShoulder(lm) ==
  IF Seen(lm, 13) /\ Seen(lm, 11) /\ Seen(lm, 12)
    THEN << calcAngle(lm[13], lm[11], lm[12]) >> ELSE <<>>

rightShoulder(lm) ==
  IF Seen(lm, 11) /\ Seen(lm, 12) /\ Seen(lm, 14)
    THEN << calcAngle(lm[11], lm[12], lm[14]) >> ELSE <<>>

hipTilt(lm) ==
  IF Seen(lm, 23) /\ Seen(lm, 24)
    THEN << 10 * Abs(Atan2Deg(lm[24].y - lm[23].y, lm[24].x - lm[23].x)) >> ELSE <<>>

\* spineTilt computed whenever both hips are there
spineTilt_HipsOnly(lm) ==
  IF Seen(lm, 23) /\ Seen(lm, 24)
    THEN << 0 >> ELSE <<>>

\* the midpoints are kept doubled: atan2 depends on the direction only
spineTilt(lm) ==
  IF Seen(lm, 11) /\ Seen(lm, 12) /\ Seen(lm, 23) /\ Seen(lm, 24)
    THEN << 10 * Abs(Atan2Deg((lm[11].x + lm[12].x) - (lm[23].x + lm[24].x),
                              (lm[23].y + lm[24].y) - (lm[11].y + lm[12].y))) >>
    ELSE <<>>

monomiAngle(lm) ==
  IF Seen(lm, 7) /\ Seen(lm, 8) /\ Seen(lm, 11) /\ Seen(lm, 12)
    THEN LET shoulderAngle == Atan2Deg(lm[12].y - lm[11].y, lm[12].x - lm[11].x)
             earAngle      == Atan2Deg(lm[8].y - lm[7].y, lm[8].x - lm[7].x)
             diff          == earAngle - shoulderAngle
         IN  << 10 * (IF diff > 180 THEN diff - 360
                      ELSE IF diff < -180 THEN diff + 360 ELSE diff) >>
    ELSE <<>>

\* rWrist.y - (nose.y + ((lEar.y + rEar.y)/2 - nose.y) * 0.55) in thousandths of
\* the frame height: a coordinate unit is 125000 millionths, half a unit times
\* 0.55 is 34375
kuchiwariOffset(lm) ==
  IF Seen(lm, 0) /\ Seen(lm, 16) /\ Seen(lm, 7) /\ Seen(lm, 8)
    THEN << ( 125000 * (lm[16].y - lm[0].y)
              - 34375 * (lm[7].y + lm[8].y - 2 * lm[0].y) ) \div 1000 >>
    ELSE <<>>

calcKyudoAngles(landmarks) ==
  [leftElbow |-> leftElbow(landmarks), rightElbow |-> rightElbow(landmarks),
   leftShoulder |-> leftShoulder(landmarks), rightShoulder |-> rightShoulder(landmarks),
   hipTilt |-> hipTilt(landmarks), spineTilt |-> spineTilt(landmarks),
   monomiAngle |-> monomiAngle(landmarks), kuchiwariOffset |-> kuchiwariOffset(landmarks)]

\* ---- the detector's result in the component ---------------------------------
\* the landmarks calcKyudoAngles reads: nose, ears, shoulders, elbows, wrists, hips
LandmarkIds == {0, 7, 8, 11, 12, 13, 14, 15, 16, 23, 24}

\* results.poseLandmarks of a fully detected archer at full draw
DetectedLandmarks ==
  0 :> Pt(4, 2) @@ 7 :> Pt(3, 1) @@ 8 :> Pt(4, 2)
    @@ 11 :> Pt(2, 3) @@ 12 :> Pt(6, 3)
    @@ 13 :> Pt(1, 3) @@ 14 :> Pt(7, 2)
    @@ 15 :> Pt(0, 3) @@ 16 :> Pt(5, 2)
    @@ 23 :> Pt(3, 7) @@ 24 :> Pt(5, 7)

\* calcKyudoAngles(results.poseLandmarks) of that pose
DetectedAngles == calcKyudoAngles(DetectedLandmarks)

\* { frame: current, ...angles }
FrameAngle(current, angles) == [frame |-> current] @@ angles

\* useEffect [status, frameAngles]: evaluation and totalFrames after a render
\* in which status is st, frameAngles is fa and the buffer is sf
EvalEffect(st, fa, sf, ev, tf) ==
  IF st = "done" /\ Len(fa) > 0
    THEN <<  <<evaluateForm(fa)>>, Len(sf) >>
    ELSE <<ev, tf>>

RunEvalEffect ==
  LET r == EvalEffect(status', frameAngles', storedFramesRef', evaluation, totalFrames)
  IN  evaluation' = r[1] /\ totalFrames' = r[2]

\* ---- the canvas ---------------------------------------------------------------
\* ctx.clearRect: nothing on the canvas
Blank == [image |-> "blank", pose |-> FALSE]

\* the drawImage of the replay without its catch: a failed draw leaves the
\* cleared canvas
DrawVideo_NoFallback(drawable) == IF drawable THEN "video" ELSE "blank"

\* try { ctx.drawImage(video, ...) } catch { ctx.fillRect(...) }: the frame of the
\* video, or the background colour when the frame cannot be drawn
DrawVideo(drawable) == IF drawable THEN "video" ELSE "fill"

\* clearRect, the video or the fill, the frame number, then drawPoseOverlay
Repaint(drawable) == [image |-> DrawVideo(drawable), pose |-> TRUE]

\* ---- analysis loops --------------------------------------------------------
\* A loop of startProcessing is [pose, pc, ref]: the Pose instance its closure
\* captured, "raf" (its callback is queued) or "await" (inside pose.send), and
\* whether rafRef.current holds the handle of its queued callback.
Put(B, l)  == B (+) SetToBag({l})
Take(B, l) == B (-) SetToBag({l})

ClearRef(B) ==
  IF \E l \in BagToSet(B) : l.ref
    THEN LET l == CHOOSE x \in BagToSet(B) : x.ref
         IN  Put(Take(B, l), [l EXCEPT !.ref = FALSE])
    ELSE B

\* rafRef.current = requestAnimationFrame(loop)
Schedule(B, pose) == Put(ClearRef(B), [pose |-> pose, pc |-> "raf", ref |-> TRUE])

\* if (rafRef.current) { cancelAnimationFrame(rafRef.current); ... }
CancelRaf(B) ==
  IF rafRef = "handle" /\ \E l \in BagToSet(B) : l.ref
    THEN Take(B, CHOOSE x \in BagToSet(B) : x.ref)
    ELSE B

RECURSIVE StartLoops(_, _, _)
StartLoops(B, pose, n) ==
  IF n = 0 THEN B ELSE StartLoops(Schedule(B, pose), pose, n - 1)

\* ---- replay scheduler ------------------------------------------------------
Panel == status = "done" /\ totalFrames > 0

\* NewLoop with the speed argument ignored in favour of the rendered state
NewLoop_StaleSpeed(startIdx, speed) ==
  [speed |-> replaySpeed, lastRealTime |-> NoTime,
   lastFrameTime |-> Scale * TimeMsOr0(startIdx)]

\* the closure variables of a new startReplay loop
NewLoop(startIdx, speed) ==
  [speed |-> speed, lastRealTime |-> NoTime, lastFrameTime |-> Scale * TimeMsOr0(startIdx)]

ReplayNow ==
  [active |-> isReplaying, paused |-> replayPaused, pausedRef |-> replayPausedRef,
   idx |-> replayIdxRef, raf |-> replayRafRef, loop |-> replayLoop]

\* startReplay(startIdx, speed): the replay state it leaves
startReplay(startIdx, speed) ==
  IF Len(storedFramesRef) = 0
    THEN ReplayNow
    ELSE [active |-> TRUE, paused |-> FALSE, pausedRef |-> FALSE,
          idx |-> startIdx, raf |-> "handle", loop |-> <<NewLoop(startIdx, speed)>>]

\* stopReplay without the cancelAnimationFrame
stopReplay_NoCancel ==
  [active |-> FALSE, paused |-> FALSE, pausedRef |-> FALSE,
   idx |-> replayIdxRef, raf |-> replayRafRef, loop |-> replayLoop]

\* stopReplay(): the replay state it leaves
stopReplay ==
  [active |-> FALSE, paused |-> FALSE, pausedRef |-> FALSE,
   idx |-> replayIdxRef, raf |-> "null", loop |-> <<>>]

SetReplay(r) ==
  /\ isReplaying' = r.active
  /\ replayPaused' = r.paused
  /\ replayPausedRef' = r.pausedRef
  /\ replayIdxRef' = r.idx
  /\ replayRafRef' = r.raf
  /\ replayLoop' = r.loop

\* the virtual advance with the speed multiplier left out
VirtualAdvance_Unscaled(realElapsed, speed) == realElapsed * Scale

\* lastFrameTime += realElapsed * speed
VirtualAdvance(realElapsed, speed) == realElapsed * speed

\* the search over the whole buffer instead of from idx on: one past the last
\* frame whose timestamp is at most lastFrameTime
NextIdx_WholeBuffer(idx, lastFrameTime) ==
  LET upTo == {i \in 0 .. Len(storedFramesRef) - 1 : Scale * StoredAt(i).timeMs <= lastFrameTime}
  IN  Min2(Cardinality(upTo), Len(storedFramesRef) - 1)

\* while (nextIdx < stored.length-1 && stored[nextIdx].timeMs <= lastFrameTime) nextIdx++
RECURSIVE NextIdx(_, _)
NextIdx(idx, lastFrameTime) ==
  IF idx < Len(storedFramesRef) - 1 /\ Scale * StoredAt(idx).timeMs <= lastFrameTime
    THEN NextIdx(idx + 1, lastFrameTime)
    ELSE idx

\* ---- initial state: after the first run of the setup effect ----------------
Init ==
  /\ session = 1
  /\ status = "loading"
  /\ videoTime = 0 /\ videoPaused = TRUE /\ videoErr = FALSE
  /\ procLoops = EmptyBag /\ rafRef = "null" /\ procRef = FALSE
  /\ poseLandmarks = DetectedLandmarks
  /\ frameRef = 0 /\ storedFramesRef = <<>> /\ frameAngles = <<>> /\ displayCount = 0
  /\ evaluation = <<>> /\ totalFrames = 0
  /\ isReplaying = FALSE /\ replayPaused = FALSE /\ replaySpeed = Scale
  /\ replayFrame = 0 /\ replayIdxRef = 0 /\ replayRafRef = "null"
  /\ replayPausedRef = FALSE /\ replayLoop = <<>>
  /\ canvas = Blank
  /\ now = 0
  /\ lastOp = Op("init", 0)

\* ---- setup effect: a new videoSrc ------------------------------------------
\* cleanup of the previous run, then the effect body
LoadVideo ==
  /\ session < MaxSessions
  /\ session' = session + 1
  /\ frameRef' = 0 /\ procRef' = FALSE
  /\ storedFramesRef' = <<>>
  /\ frameAngles' = <<>> /\ displayCount' = 0 /\ evaluation' = <<>>
  /\ status' = "loading" /\ isReplaying' = FALSE /\ replayFrame' = 0 /\ totalFrames' = 0
  /\ procLoops' = CancelRaf(procLoops) /\ rafRef' = "null"
  /\ replayLoop' = <<>> /\ replayRafRef' = "null"
  /\ videoTime' = 0 /\ videoPaused' = TRUE /\ videoErr' = FALSE
  /\ UNCHANGED <<poseLandmarks, replayPaused, replayPausedRef, replayIdxRef, replaySpeed,
                 canvas, now>>
  /\ lastOp' = Op("load", 0)

\* 'loadedmetadata': every onMeta registered so far runs; play() resolves
OnMeta ==
  /\ status = "loading" /\ ~videoErr
  /\ status' = "playing"
  /\ videoPaused' = FALSE
  /\ procLoops' = StartLoops(procLoops, session, session)
  /\ rafRef' = "handle"
  /\ canvas' = Blank
  /\ UNCHANGED <<session, videoTime, videoErr, procRef, bufVars, evalVars, replayVars,
                 replaySpeed, replayFrame, now>>
  /\ lastOp' = Op("meta", 0)

\* 'loadedmetadata' with play() rejected
PlayRejected ==
  /\ status = "loading" /\ ~videoErr
  /\ status' = "error"
  /\ UNCHANGED <<session, videoVars, procVars, bufVars, evalVars, replayVars,
                 replaySpeed, replayFrame, canvas, now>>
  /\ lastOp' = Op("playRejected", 0)

\* the video element raises 'error' while loading or playing
VideoError ==
  /\ status \in {"loading", "playing"} /\ ~videoErr
  /\ status' = "error"
  /\ videoErr' = TRUE
  /\ UNCHANGED <<session, videoTime, videoPaused, procVars, bufVars, evalVars,
                 replayVars, replaySpeed, replayFrame, canvas, now>>
  /\ lastOp' = Op("videoError", 0)

\* playback advances; at the end the element pauses and raises 'ended'
VideoAdvance ==
  /\ ~videoPaused /\ ~videoErr /\ videoTime < Duration
  /\ videoTime' = videoTime + 1
  /\ IF videoTime' = Duration
       THEN videoPaused' = TRUE /\ status' = "done"
       ELSE UNCHANGED <<videoPaused, status>>
  /\ UNCHANGED <<session, videoErr, procVars, bufVars, replayVars, replaySpeed,
                 replayFrame, canvas, now>>
  /\ RunEvalEffect
  /\ lastOp' = Op("videoAdvance", 0)

\* ---- startProcessing.loop --------------------------------------------------
\* one callback of the loop l, up to its return or its await
ProcLoop(l) ==
  /\ l \in BagToSet(procLoops) /\ l.pc = "raf"
  /\ LET rest == Take(procLoops, l) IN
       IF VideoEnded
         THEN /\ status' = "done"
              /\ procLoops' = rest
              /\ UNCHANGED <<rafRef, procRef>>
         ELSE IF videoPaused \/ procRef
           THEN /\ procLoops' = Schedule(rest, l.pose)
                /\ rafRef' = "handle"
                /\ UNCHANGED <<status, procRef>>
           ELSE /\ procRef' = TRUE
                /\ procLoops' = Put(rest, [pose |-> l.pose, pc |-> "await", ref |-> FALSE])
                /\ UNCHANGED <<status, rafRef>>
  /\ UNCHANGED <<session, videoVars, bufVars, replayVars, replaySpeed, replayFrame,
                 canvas, now>>
  /\ RunEvalEffect
  /\ lastOp' = Op("procLoop", 0)

\* AppendFrame reading frameRef.current without the post-increment
AppendFrame_NoIncrement ==
  /\ storedFramesRef' = Append(storedFramesRef, [frame |-> frameRef, timeMs |-> videoTime])
  /\ frameRef' = frameRef
  /\ frameAngles' = Append(frameAngles, FrameAngle(frameRef, calcKyudoAngles(poseLandmarks)))
  /\ displayCount' = frameRef
  /\ UNCHANGED poseLandmarks

\* pose.onResults with results.poseLandmarks
AppendFrame ==
  /\ storedFramesRef' = Append(storedFramesRef, [frame |-> frameRef, timeMs |-> videoTime])
  /\ frameRef' = frameRef + 1
  /\ frameAngles' = Append(frameAngles, FrameAngle(frameRef, calcKyudoAngles(poseLandmarks)))
  /\ displayCount' = frameRef + 1
  /\ UNCHANGED poseLandmarks

\* the op recorded for a settled pose.send
DetectionOp(outcome) ==
  IF outcome = "landmarks" THEN "detection"
  ELSE IF outcome = "none" THEN "noLandmarks"
  ELSE "sendFailed"

\* DetectionDone without the try/catch around pose.send: a failed call ends the
\* loop with the guard still set
DetectionDone_NoCatch(l, outcome) ==
  /\ l \in BagToSet(procLoops) /\ l.pc = "await"
  /\ IF outcome = "landmarks"
       THEN frameRef < MaxFrames /\ AppendFrame
       ELSE UNCHANGED bufVars
  /\ canvas' = IF outcome = "landmarks" THEN [image |-> "video", pose |-> TRUE]
               ELSE IF outcome = "none" THEN [image |-> "video", pose |-> FALSE]
               ELSE canvas
  /\ IF outcome = "failed"
       THEN /\ procLoops' = Take(procLoops, l)
            /\ UNCHANGED <<procRef, rafRef>>
       ELSE /\ procRef' = FALSE
            /\ procLoops' = Schedule(Take(procLoops, l), l.pose)
            /\ rafRef' = "handle"
  /\ UNCHANGED <<session, status, videoVars, replayVars, replaySpeed, replayFrame, now>>
  /\ RunEvalEffect
  /\ lastOp' = Op(DetectionOp(outcome), 0)

\* pose.send of the loop l settles: onResults runs (with or without landmarks)
\* or the call fails; then the loop clears the guard and reschedules itself
DetectionDone(l, outcome) ==
  /\ l \in BagToSet(procLoops) /\ l.pc = "await"
  /\ IF outcome = "landmarks"
       THEN frameRef < MaxFrames /\ AppendFrame
       ELSE UNCHANGED bufVars
  /\ canvas' = IF outcome = "landmarks" THEN [image |-> "video", pose |-> TRUE]
               ELSE IF outcome = "none" THEN [image |-> "video", pose |-> FALSE]
               ELSE canvas
  /\ procRef' = FALSE
  /\ procLoops' = Schedule(Take(procLoops, l), l.pose)
  /\ rafRef' = "handle"
  /\ UNCHANGED <<session, status, videoVars, replayVars, replaySpeed, replayFrame, now>>
  /\ RunEvalEffect
  /\ lastOp' = Op(DetectionOp(outcome), 0)

\* ---- replay panel ----------------------------------------------------------
\* play button: startReplay(0, replaySpeed)
PlayClick ==
  /\ Panel /\ ~isReplaying
  /\ SetReplay(startReplay(0, replaySpeed))
  /\ UNCHANGED <<session, status, videoVars, procVars, bufVars, evalVars,
                 replaySpeed, replayFrame, canvas, now>>
  /\ lastOp' = Op("play", 0)

\* seek bar onMouseDown while idle: startReplay(0), then paused
SeekMouseDown ==
  /\ Panel /\ ~isReplaying
  /\ SetReplay([startReplay(0, replaySpeed) EXCEPT !.paused = TRUE, !.pausedRef = TRUE])
  /\ UNCHANGED <<session, status, videoVars, procVars, bufVars, evalVars,
                 replaySpeed, replayFrame, canvas, now>>
  /\ lastOp' = Op("mouseDown", 0)

toggleReplayPause ==
  /\ Panel /\ isReplaying
  /\ replayPausedRef' = ~replayPausedRef
  /\ replayPaused' = ~replayPausedRef
  /\ UNCHANGED <<session, status, videoVars, procVars, bufVars, evalVars,
                 isReplaying, replayIdxRef, replayRafRef, replayLoop,
                 replaySpeed, replayFrame, canvas, now>>
  /\ lastOp' = Op("toggle", 0)

StopClick ==
  /\ Panel /\ isReplaying
  /\ SetReplay(stopReplay)
  /\ UNCHANGED <<session, status, videoVars, procVars, bufVars, evalVars,
                 replaySpeed, replayFrame, canvas, now>>
  /\ lastOp' = Op("stop", 0)

\* speed button: setReplaySpeed(s); if (isReplaying) startReplay(replayIdxRef.current, s)
SpeedClick(s) ==
  /\ Panel
  /\ replaySpeed' = s
  /\ IF isReplaying
       THEN SetReplay(startReplay(replayIdxRef, s))
       ELSE UNCHANGED replayVars
  /\ UNCHANGED <<session, status, videoVars, procVars, bufVars, evalVars,
                 replayFrame, canvas, now>>
  /\ lastOp' = Op("speed", s)

\* handleSeek drawing the frame of the index it read before updating it
handleSeek_StaleFrame(k) ==
  /\ Panel /\ k \in 0 .. totalFrames - 1
  /\ replayIdxRef' = k
  /\ replayFrame' = k
  /\ IF replayIdxRef < Len(storedFramesRef)
       THEN /\ videoTime' = StoredAt(replayIdxRef).timeMs
            /\ \E drawable \in BOOLEAN : canvas' = Repaint(drawable)
       ELSE UNCHANGED <<videoTime, canvas>>
  /\ UNCHANGED <<session, status, videoPaused, videoErr, procVars, bufVars, evalVars,
                 isReplaying, replayPaused, replayPausedRef, replayRafRef, replayLoop,
                 replaySpeed, now>>
  /\ lastOp' = Op("seek", k)

\* seek bar onChange
handleSeek(k) ==
  /\ Panel /\ k \in 0 .. totalFrames - 1
  /\ replayIdxRef' = k
  /\ replayFrame' = k
  /\ IF k < Len(storedFramesRef)
       THEN /\ videoTime' = StoredAt(k).timeMs
            /\ \E drawable \in BOOLEAN : canvas' = Repaint(drawable)
       ELSE UNCHANGED <<videoTime, canvas>>
  /\ UNCHANGED <<session, status, videoPaused, videoErr, procVars, bufVars, evalVars,
                 isReplaying, replayPaused, replayPausedRef, replayRafRef, replayLoop,
                 replaySpeed, now>>
  /\ lastOp' = Op("seek", k)

\* one callback of the startReplay loop, at the animation frame now + dt
ReplayLoop(dt) ==
  /\ replayLoop # <<>>
  /\ now' = now + dt
  /\ LET c == replayLoop[1] IN
       IF replayPausedRef
         THEN /\ replayRafRef' = "handle"
              /\ UNCHANGED <<isReplaying, replayPaused, replayPausedRef, replayIdxRef,
                             replayLoop, replayFrame, videoTime, canvas>>
         ELSE IF replayIdxRef >= Len(storedFramesRef)
           THEN /\ SetReplay(stopReplay)
                /\ UNCHANGED <<replayFrame, videoTime, canvas>>
           ELSE LET realElapsed == IF c.lastRealTime = NoTime THEN 0
                                   ELSE now' - c.lastRealTime
                    lastFrameTime == c.lastFrameTime + VirtualAdvance(realElapsed, c.speed)
                    nextIdx == NextIdx(replayIdxRef, lastFrameTime)
                IN  /\ replayIdxRef' = nextIdx
                    /\ replayFrame' = nextIdx
                    /\ videoTime' = StoredAt(nextIdx).timeMs
                    /\ replayLoop' = << [c EXCEPT !.lastRealTime = now',
                                                  !.lastFrameTime = lastFrameTime] >>
                    /\ \E drawable \in BOOLEAN : canvas' = Repaint(drawable)
                    /\ replayRafRef' = "handle"
                    /\ UNCHANGED <<isReplaying, replayPaused, replayPausedRef>>
  /\ UNCHANGED <<session, status, videoPaused, videoErr, procVars, bufVars, evalVars,
                 replaySpeed>>
  /\ lastOp' = Op("replayLoop", 0)

\* every handler but a new video load
SessionStep ==
  \/ OnMeta
  \/ PlayRejected
  \/ VideoError
  \/ VideoAdvance
  \/ \E l \in BagToSet(procLoops) : ProcLoop(l)
  \/ \E l \in BagToSet(procLoops) : \E o \in {"landmarks", "none", "failed"} : DetectionDone(l, o)
  \/ PlayClick
  \/ SeekMouseDown
  \/ toggleReplayPause
  \/ StopClick
  \/ \E s \in SPEEDS : SpeedClick(s)
  \/ \E k \in 0 .. MaxFrames - 1 : handleSeek(k)
  \/ \E dt \in 1 .. MaxGap : now + dt <= MaxNow /\ ReplayLoop(dt)

Next ==
  \/ LoadVideo
  \/ SessionStep

\* the component over its whole life: any number of video loads
Spec == Init /\ [][Next]_vars

\* one analysis session: the component with the video it was mounted with
SpecSession == Init /\ [][SessionStep]_vars

\* ---- live analysis alone: loads, playback and detection, the panel untouched --
CaptureStep ==
  \/ OnMeta
  \/ PlayRejected
  \/ VideoError
  \/ VideoAdvance
  \/ \E l \in BagToSet(procLoops) : ProcLoop(l)
  \/ \E l \in BagToSet(procLoops) : \E o \in {"landmarks", "none", "failed"} : DetectionDone(l, o)

NextCapture ==
  \/ LoadVideo
  \/ CaptureStep

SpecCapture == Init /\ [][NextCapture]_vars

\* ---- the scorer on its own ------------------------------------------------
MaxScoreLen == 20            \* longest sequence of angle records scored

NoAngles ==
  [leftElbow |-> <<>>, rightElbow |-> <<>>, leftShoulder |-> <<>>, rightShoulder |-> <<>>,
   hipTilt |-> <<>>, spineTilt |-> <<>>, monomiAngle |-> <<>>, kuchiwariOffset |-> <<>>]

\* angle records the sequences are built from: a sound form, a poor one, one with
\* the left arm hidden, one with only the arms visible, and one with no metric.
\* On every sequence built from them the scores above equal the scores of the
\* double-precision arithmetic of the code.
ScoreRecords ==
  { [leftElbow |-> <<1650>>, rightElbow |-> <<950>>, leftShoulder |-> <<900>>,
     rightShoulder |-> <<900>>, hipTilt |-> <<0>>, spineTilt |-> <<0>>,
     monomiAngle |-> <<450>>, kuchiwariOffset |-> <<7>>],
    [leftElbow |-> <<1400>>, rightElbow |-> <<1280>>, leftShoulder |-> <<1000>>,
     rightShoulder |-> <<790>>, hipTilt |-> <<100>>, spineTilt |-> <<110>>,
     monomiAngle |-> <<190>>, kuchiwariOffset |-> <<54>>],
    [leftElbow |-> <<>>, rightElbow |-> <<1000>>, leftShoulder |-> <<>>,
     rightShoulder |-> <<880>>, hipTilt |-> <<30>>, spineTilt |-> <<50>>,
     monomiAngle |-> <<600>>, kuchiwariOffset |-> <<-31>>],
    [leftElbow |-> <<1720>>, rightElbow |-> <<1160>>, leftShoulder |-> <<>>,
     rightShoulder |-> <<>>, hipTilt |-> <<>>, spineTilt |-> <<>>,
     monomiAngle |-> <<>>, kuchiwariOffset |-> <<>>],
    NoAngles }

\* n records: the first k are a and the rest b ("runs"), or a and b in turn
ScoreInput(a, b, n, k, mode) ==
  [i \in 1 .. n |->
     FrameAngle(i - 1, IF mode = "runs" THEN (IF i <= k THEN a ELSE b)
                       ELSE (IF i % 2 = 1 THEN a ELSE b))]

\* the analysis of a video is over and has left the angle records of its frames
InitScore ==
  /\ session = 1
  /\ status = "done"
  /\ videoTime = Duration /\ videoPaused = TRUE /\ videoErr = FALSE
  /\ procLoops = EmptyBag /\ rafRef = "handle" /\ procRef = FALSE
  /\ poseLandmarks = DetectedLandmarks
  /\ \E a \in ScoreRecords, b \in ScoreRecords, n \in 0 .. MaxScoreLen :
       \E k \in 0 .. n, mode \in {"runs", "turns"} :
         /\ mode = "turns" => k = 0
         /\ frameAngles = ScoreInput(a, b, n, k, mode)
         /\ frameRef = n
         /\ displayCount = n
         /\ storedFramesRef = [i \in 1 .. n |-> [frame |-> i - 1, timeMs |-> Min2(i - 1, Duration)]]
  /\ evaluation = <<>> /\ totalFrames = 0
  /\ isReplaying = FALSE /\ replayPaused = FALSE /\ replaySpeed = Scale
  /\ replayFrame = 0 /\ replayIdxRef = 0 /\ replayRafRef = "null"
  /\ replayPausedRef = FALSE /\ replayLoop = <<>>
  /\ canvas = IF Len(frameAngles) = 0 THEN Blank ELSE [image |-> "video", pose |-> TRUE]
  /\ now = 0
  /\ lastOp = Op("init", 0)

\* the call evaluateForm(frameAngles)
Evaluate ==
  /\ lastOp.op = "init"
  /\ evaluation' = << evaluateForm(frameAngles) >>
  /\ UNCHANGED <<session, status, videoVars, procVars, bufVars, totalFrames, replayVars,
                 replaySpeed, replayFrame, canvas, now>>
  /\ lastOp' = Op("evaluate", 0)

SpecScore == InitScore /\ [][Evaluate]_vars

\* ---- one detection result ----------------------------------------------------
GridMax == 3                 \* largest coordinate of a landmark of InitArm

\* the points of the grid
Grid == {Pt(x, y) : x \in 0 .. GridMax, y \in 0 .. GridMax}

\* the first pose.send of the analysis is outstanding
InitDetect ==
  /\ session = 1
  /\ status = "playing"
  /\ videoTime = 0 /\ videoPaused = FALSE /\ videoErr = FALSE
  /\ procLoops = SetToBag({[pose |-> 1, pc |-> "await", ref |-> FALSE]})
  /\ rafRef = "handle" /\ procRef = TRUE
  /\ frameRef = 0 /\ storedFramesRef = <<>> /\ frameAngles = <<>> /\ displayCount = 0
  /\ evaluation = <<>> /\ totalFrames = 0
  /\ isReplaying = FALSE /\ replayPaused = FALSE /\ replaySpeed = Scale
  /\ replayFrame = 0 /\ replayIdxRef = 0 /\ replayRafRef = "null"
  /\ replayPausedRef = FALSE /\ replayLoop = <<>>
  /\ canvas = Blank
  /\ now = 0
  /\ lastOp = Op("init", 0)

\* the detector is about to deliver the archer's pose with any of the landmarks
\* that calcKyudoAngles reads missing
InitPose ==
  /\ InitDetect
  /\ \E seen \in SUBSET LandmarkIds :
       poseLandmarks = [i \in seen |-> DetectedLandmarks[i]]

\* the detector is about to deliver a left arm alone: shoulder, elbow and wrist
\* anywhere on the grid
InitArm ==
  /\ InitDetect
  /\ \E a \in Grid, b \in Grid, c \in Grid :
       poseLandmarks = (11 :> a @@ 13 :> b @@ 15 :> c)

\* the detector is about to deliver the ears and the shoulders alone, anywhere
\* on the grid
InitHead ==
  /\ InitDetect
  /\ \E lEar \in Grid, rEar \in Grid, lShoulder \in Grid, rShoulder \in Grid :
       poseLandmarks = (7 :> lEar @@ 8 :> rEar @@ 11 :> lShoulder @@ 12 :> rShoulder)

\* the outstanding call settles with landmarks
Detect == \E l \in BagToSet(procLoops) : DetectionDone(l, "landmarks")

SpecPose == InitPose /\ [][Detect]_vars

SpecArm == InitArm /\ [][Detect]_vars

SpecHead == InitHead /\ [][Detect]_vars

\* ---- replay of an evenly spaced buffer ------------------------------------
FrameGap    == 33                \* ms between two stored frames
TrackFrames == 24                \* frames in the buffer
TrackElapsed == 10 * FrameGap    \* real time replayed, ms

\* after the analysis of a video whose frames were captured FrameGap apart:
\* status done, every detection call settled, replay idle at 1.0x or 2.0x
InitTrack ==
  /\ session = 1
  /\ status = "done"
  /\ videoTime = (TrackFrames - 1) * FrameGap /\ videoPaused = TRUE /\ videoErr = FALSE
  /\ procLoops = EmptyBag /\ rafRef = "handle" /\ procRef = FALSE
  /\ poseLandmarks = DetectedLandmarks
  /\ frameRef = TrackFrames
  /\ storedFramesRef = [i \in 1 .. TrackFrames |-> [frame |-> i - 1, timeMs |-> (i - 1) * FrameGap]]
  /\ frameAngles = [i \in 1 .. TrackFrames |-> FrameAngle(i - 1, DetectedAngles)]
  /\ displayCount = TrackFrames
  /\ evaluation = << evaluateForm([i \in 1 .. TrackFrames |-> FrameAngle(i - 1, DetectedAngles)]) >>
  /\ totalFrames = TrackFrames
  /\ isReplaying = FALSE /\ replayPaused = FALSE
  /\ replaySpeed \in {Scale, 2 * Scale}
  /\ replayFrame = 0 /\ replayIdxRef = 0 /\ replayRafRef = "null"
  /\ replayPausedRef = FALSE /\ replayLoop = <<>>
  /\ canvas = [image |-> "video", pose |-> TRUE]
  /\ now = 0
  /\ lastOp = Op("init", 0)

\* the first callback of the loop fixes the time origin; later callbacks split
\* the TrackElapsed ms in every possible way
TrackTick(dt) ==
  /\ replayLoop # <<>>
  /\ IF replayLoop[1].lastRealTime = NoTime THEN dt = 0 ELSE dt >= 1
  /\ now + dt <= TrackElapsed
  /\ ReplayLoop(dt)

NextTrack ==
  \/ PlayClick
  \/ \E dt \in 0 .. TrackElapsed : TrackTick(dt)

SpecTrack == InitTrack /\ [][NextTrack]_vars

\* ---- a new video during the replay of an evenly spaced buffer -------------------
NextReload ==
  \/ LoadVideo
  \/ PlayClick
  \/ SeekMouseDown
  \/ \E dt \in 0 .. TrackElapsed : TrackTick(dt)

SpecReload == InitTrack /\ [][NextReload]_vars

\* ---- a canvas that may yield no 2d context ---------------------------------------
\* startReplay(startIdx, speed) when canvas.getContext('2d') returns null: the
\* pending frame is cancelled and the state set, then `if (!ctx) return`
startReplayNoCtx(startIdx, speed) ==
  IF Len(storedFramesRef) = 0
    THEN ReplayNow
    ELSE [active |-> TRUE, paused |-> FALSE, pausedRef |-> FALSE,
          idx |-> startIdx, raf |-> replayRafRef, loop |-> <<>>]

\* play button, no 2d context
PlayClickNoCtx ==
  /\ Panel /\ ~isReplaying
  /\ SetReplay(startReplayNoCtx(0, replaySpeed))
  /\ UNCHANGED <<session, status, videoVars, procVars, bufVars, evalVars,
                 replaySpeed, replayFrame, canvas, now>>
  /\ lastOp' = Op("play", 0)

\* speed button, no 2d context
SpeedClickNoCtx(s) ==
  /\ Panel
  /\ replaySpeed' = s
  /\ IF isReplaying
       THEN SetReplay(startReplayNoCtx(replayIdxRef, s))
       ELSE UNCHANGED replayVars
  /\ UNCHANGED <<session, status, videoVars, procVars, bufVars, evalVars,
                 replayFrame, canvas, now>>
  /\ lastOp' = Op("speed", s)

NextSurface ==
  \/ SessionStep
  \/ PlayClickNoCtx
  \/ \E s \in SPEEDS : SpeedClickNoCtx(s)

SpecSurface == Init /\ [][NextSurface]_vars

\* ---- claims ------------------------------------------------------------------
Playing == isReplaying /\ ~replayPausedRef /\ replayLoop # <<>>

LastIdx == Len(storedFramesRef) - 1

RECURSIVE SumCopies(_, _)
SumCopies(S, B) ==
  IF S = {} THEN 0
  ELSE LET l == CHOOSE x \in S : TRUE IN CopiesIn(l, B) + SumCopies(S \ {l}, B)

\* number of loops in B of a Pose older than sess that are in state pc
StaleLoops(B, sess, pc) ==
  SumCopies({l \in BagToSet(B) : l.pose < sess /\ l.pc = pc}, B)

\* number of pose.send calls outstanding on the Pose p
Outstanding(p) == SumCopies({l \in BagToSet(procLoops) : l.pose = p /\ l.pc = "await"}, procLoops)

\* C1: replay finishes on its own: a tick of an un-paused replay that is already
\* on the last frame, with the virtual timestamp at or past that frame, ends the
\* replay (active = false) and schedules no further tick.
C1_ReplayFinishes ==
  [][ ( /\ Playing
        /\ replayIdxRef = LastIdx
        /\ replayLoop[1].lastFrameTime >= Scale * StoredAt(LastIdx).timeMs
        /\ lastOp'.op = "replayLoop" )
      => (~isReplaying' /\ replayLoop' = <<>>) ]_vars

\* C2: the real time spent paused is never added to the virtual timestamp: an
\* un-paused tick selects no frame beyond the one reached by adding that single
\* tick's own elapsed time, scaled by the speed, to the virtual timestamp.
C2_NoCatchUp ==
  [][ ( /\ Playing
        /\ lastOp'.op = "replayLoop"
        /\ replayLoop' # <<>> )
      => replayIdxRef' <= NextIdx(replayIdxRef,
                            replayLoop[1].lastFrameTime
                              + VirtualAdvance(now' - now, replayLoop[1].speed)) ]_vars

\* C3: a new video load fully cancels the previous session: afterwards no
\* callback of a loop of an earlier session is queued, and the completion of a
\* detection call of an earlier session changes neither the capture buffer, the
\* in-flight guard nor the status.
C3_NoCrossSession ==
  [][ /\ StaleLoops(procLoops', session', "raf") = 0
      /\ ( session' = session
           /\ StaleLoops(procLoops', session', "await") < StaleLoops(procLoops, session, "await") )
         => UNCHANGED <<storedFramesRef, frameAngles, procRef, status>> ]_vars

\* C4: within one analysis session at most one detection call is outstanding
\* on the session's detector.
C4_OneOutstanding == Outstanding(session) <= 1

\* C5: live analysis and replay are mutually exclusive: while replay is active
\* the status is done and no detection call is outstanding.
C5_ReplayExcludesAnalysis ==
  isReplaying => (status = "done" /\ \A l \in BagToSet(procLoops) : l.pc # "await")

\* C6: seek(k) for a valid k sets the current replay index to exactly k, whatever
\* the prior state, and repositions the video to frame k's stored timestamp.
C6_SeekSetsIndex ==
  lastOp.op = "seek" =>
    /\ lastOp.arg < Len(storedFramesRef)
    /\ replayIdxRef = lastOp.arg
    /\ replayFrame = lastOp.arg
    /\ videoTime = StoredAt(lastOp.arg).timeMs

\* a seek back to frame 0 during un-paused playback that had already advanced
C6_Witness ==
  /\ lastOp = Op("seek", 0)
  /\ Playing
  /\ replayLoop[1].lastRealTime # NoTime
  /\ replayLoop[1].lastFrameTime > Scale * StoredAt(0).timeMs
  /\ Len(storedFramesRef) >= 2

\* C7: replay tracks wall-clock time scaled by the speed: over frames FrameGap
\* apart, after ticks totalling 10 * FrameGap of real time from index 0, the index
\* is within one frame of 10 at 1.0x and within one frame of 20 at 2.0x, however
\* the time is split into ticks.
C7_TracksWallClock ==
  ( /\ replayLoop # <<>>
    /\ replayLoop[1].lastRealTime # NoTime
    /\ now = TrackElapsed )
  => /\ replayLoop[1].speed = Scale     => replayIdxRef \in 9 .. 11
     /\ replayLoop[1].speed = 2 * Scale => replayIdxRef \in 19 .. 21

\* the 2.0x replay after the full elapsed time, reached in more than one tick
C7_Witness ==
  /\ replayLoop # <<>>
  /\ replayLoop[1].speed = 2 * Scale
  /\ replayLoop[1].lastRealTime = TrackElapsed
  /\ now = TrackElapsed
  /\ replayIdxRef \in 19 .. 21
  /\ lastOp.op = "replayLoop"

\* C8: stop() in any replay state leaves the scheduler idle with the paused flag
\* false and no tick pending; an idle scheduler has no tick pending, so no later
\* tick moves the index or the video until the next start.
C8_StopIdles ==
  /\ lastOp.op = "stop" =>
       ( ~isReplaying /\ ~replayPaused /\ ~replayPausedRef
         /\ replayRafRef = "null" /\ replayLoop = <<>> )
  /\ ~isReplaying => replayLoop = <<>>

\* stop() of a replay that had already ticked and advanced
C8_Witness ==
  /\ lastOp.op = "stop"
  /\ now > 0
  /\ replayIdxRef > 0

\* C9: setSpeed(m) makes every subsequent tick scale real elapsed time by m; it
\* leaves the current index unchanged, and when called during replay the loop
\* restarts from the current index, so the following tick advances by no more
\* than a single tick's advance at rate m.
C9_SetSpeed ==
  [][ /\ lastOp'.op = "speed" =>
           /\ replaySpeed' = lastOp'.arg
           /\ replayIdxRef' = replayIdxRef
           /\ replayFrame' = replayFrame
           /\ isReplaying =>
                replayLoop' = << [speed |-> lastOp'.arg, lastRealTime |-> NoTime,
                                  lastFrameTime |-> Scale * TimeMsOr0(replayIdxRef)] >>
      /\ ( Playing /\ lastOp'.op = "replayLoop" /\ replayLoop' # <<>> ) =>
           /\ replayLoop'[1].lastFrameTime - replayLoop[1].lastFrameTime
                = replaySpeed * (IF replayLoop[1].lastRealTime = NoTime THEN 0
                                 ELSE now' - replayLoop[1].lastRealTime)
           /\ lastOp.op = "speed" =>
                replayIdxRef' <= NextIdx(replayIdxRef,
                                   Scale * TimeMsOr0(replayIdxRef) + replaySpeed * (now' - now))
    ]_vars

\* a speed change made during a replay that had already ticked and advanced
C9_Witness ==
  /\ lastOp.op = "speed"
  /\ lastOp.arg # Scale
  /\ isReplaying
  /\ replayLoop # <<>>
  /\ now > 0
  /\ replayIdxRef > 0

\* C10: a new video load resets the whole ReplayState: active false, paused
\* false, current frame index 0 and totalFrames 0.
C10_LoadResetsReplay ==
  lastOp.op = "load" =>
    ( ~isReplaying /\ ~replayPaused /\ replayFrame = 0 /\ totalFrames = 0 )

\* C11: the record at position i of the capture buffer carries frame index i and
\* the next index to assign is the buffer's size; outside a reset the buffer only
\* grows at its end, no record being removed or changed; directly after a reset
\* the size is 0 and the next assigned index is 0.
C11_BufferIndices ==
  [][ /\ \A i \in 1 .. Len(storedFramesRef') : storedFramesRef'[i].frame = i - 1
      /\ frameRef' = Len(storedFramesRef')
      /\ lastOp'.op = "load" => (Len(storedFramesRef') = 0 /\ frameRef' = 0)
      /\ lastOp'.op # "load" =>
           /\ Len(storedFramesRef') >= Len(storedFramesRef)
           /\ SubSeq(storedFramesRef', 1, Len(storedFramesRef)) = storedFramesRef
    ]_vars

\* the second video's buffer holding two records, the last one just appended,
\* after the first video's buffer had held records too
C11_Witness ==
  /\ session = 2
  /\ lastOp.op = "detection"
  /\ Len(storedFramesRef) = 2
  /\ StoredAt(1).frame = 1

\* C12: when live analysis has terminated, by video end (status done) or by
\* error (status error), and at least one frame was captured, the published
\* report is the scorer's report on the full list of angle records; while no
\* frame has been captured there is no report.
C12_TerminalEvaluates ==
  /\ ( status \in {"done", "error"} /\ Len(frameAngles) > 0 )
       => evaluation = << evaluateForm(frameAngles) >>
  /\ Len(frameAngles) = 0 => evaluation = <<>>

\* ---- claims about the scorer ----------------------------------------------------
Scored == lastOp.op = "evaluate"

Report == evaluation[1]

\* number of non-null samples of a metric in the scored sequence
Count(metric) == Len(Col(frameAngles, metric))

Has(label) == \E i \in 1 .. Len(Report.items) : Report.items[i].label = label

ItemOf(label) == Report.items[CHOOSE i \in 1 .. Len(Report.items) : Report.items[i].label = label]

\* the metrics each criterion reads
Requires ==
  [leftElbow  |-> {"leftElbow"},
   rightElbow |-> {"rightElbow"},
   symmetry   |-> {"leftShoulder", "rightShoulder"},
   hipTilt    |-> {"hipTilt"},
   spineTilt  |-> {"spineTilt"},
   hold       |-> {"leftElbow", "rightElbow"},
   smooth     |-> {"leftElbow"},
   monomi     |-> {"monomiAngle"},
   kuchiwari  |-> {"kuchiwariOffset"}]

Criteria == DOMAIN Requires

\* the fewest valid samples of each required metric with which a criterion is scored
Needed ==
  [leftElbow |-> 6, rightElbow |-> 6, symmetry |-> 6, hipTilt |-> 6, spineTilt |-> 6,
   hold |-> 12, smooth |-> 11, monomi |-> 6, kuchiwari |-> 6]

Neutral == [total |-> 0, rank |-> "unrated", items |-> <<>>]

\* C13 as stated: every criterion's item is in the report if and only if each
\* metric it requires has more than 5 valid samples.
C13_PresentIffOver5 ==
  Scored =>
    \A c \in Criteria : Has(c) <=> (\A m \in Requires[c] : Count(m) > 5)

\* C13: every criterion's item is in the report, once, if and only if each metric
\* it requires has enough valid samples: more than 5, except at least 12 of both
\* elbows for the hold (more than 5 in the slice from floor(0.55 n)) and more than
\* 10 of the left elbow for the smoothness; otherwise the item is left out.
C13_PresentIffGuard ==
  Scored =>
    /\ \A c \in Criteria : Has(c) <=> (\A m \in Requires[c] : Count(m) >= Needed[c])
    /\ \A i, j \in 1 .. Len(Report.items) :
         Report.items[i].label = Report.items[j].label => i = j
    /\ \A i \in 1 .. Len(Report.items) : Report.items[i].label \in Criteria

\* eleven valid left-elbow samples: elbow extension and smoothness are scored,
\* the hold is not
C13_Witness ==
  /\ Scored
  /\ Count("leftElbow") = 11
  /\ Count("rightElbow") >= 12
  /\ Has("leftElbow") /\ Has("smooth") /\ ~Has("hold")

\* C14: on the empty sequence, and on a non-empty sequence in which no criterion
\* has more than 5 valid samples of each metric it requires, the report is the
\* neutral one: total 0, unrated, no items.
C14_NeutralReport ==
  ( Scored /\ \A c \in Criteria : \E m \in Requires[c] : Count(m) <= 5 )
    => Report = Neutral

\* a sequence of more than five records of which exactly five have any metric
C14_Witness ==
  /\ Scored
  /\ Len(frameAngles) > 5
  /\ Count("leftElbow") = 5 /\ Count("hipTilt") = 5
  /\ Report = Neutral

\* C15: in a report with at least one item the total is the mean of the item
\* scores rounded to the nearest integer, and the rank is the band of the total:
\* from 90, from 78, from 65, from 52, from 38, else the lowest.
C15_TotalAndRank ==
  ( Scored /\ Len(Report.items) > 0 ) =>
    LET n   == Len(Report.items)
        sum == SumSeq([i \in 1 .. n |-> Report.items[i].score])
        t   == Report.total
    IN  /\ 2 * n * t - n <= 2 * sum
        /\ 2 * sum <= 2 * n * t + n
        /\ Report.rank = "dan4_5" <=> t >= 90
        /\ Report.rank = "dan3"   <=> (t >= 78 /\ t < 90)
        /\ Report.rank = "dan2"   <=> (t >= 65 /\ t < 78)
        /\ Report.rank = "dan1"   <=> (t >= 52 /\ t < 65)
        /\ Report.rank = "kyu"    <=> (t >= 38 /\ t < 52)
        /\ Report.rank = "basics" <=> t < 38

\* a report of several items whose mean is not an integer and was rounded up
C15_Witness ==
  /\ Scored
  /\ Len(Report.items) >= 2
  /\ LET n   == Len(Report.items)
         sum == SumSeq([i \in 1 .. n |-> Report.items[i].score])
     IN  /\ 2 * (sum % n) >= n
         /\ Report.total = sum \div n + 1
  /\ Report.rank = "dan2"

\* C16: with more than 5 valid left-elbow samples whose peak lies in the ideal
\* band of 160 to 172 degrees, the elbow-extension item has score 100 and the
\* positive comment.
C16_ElbowIdeal ==
  ( /\ Scored
    /\ Count("leftElbow") > 5
    /\ MaxSeq(Col(frameAngles, "leftElbow")) >= 1600
    /\ MaxSeq(Col(frameAngles, "leftElbow")) <= 1720 )
  => /\ Has("leftElbow")
     /\ ItemOf("leftElbow").score = 100
     /\ ItemOf("leftElbow").comment = "ok"

\* twenty identical records with the left elbow at 165 degrees
C16_Witness ==
  /\ Scored
  /\ Len(frameAngles) = 20
  /\ \A i \in 1 .. 20 : frameAngles[i].leftElbow = <<1650>>
  /\ ItemOf("leftElbow").score = 100

\* ---- claims about the pose geometry ---------------------------------------------
\* the landmarks each metric is computed from
Landmarks ==
  [leftElbow |-> {11, 13, 15}, rightElbow |-> {12, 14, 16},
   leftShoulder |-> {13, 11, 12}, rightShoulder |-> {11, 12, 14},
   hipTilt |-> {23, 24}, spineTilt |-> {11, 12, 23, 24},
   monomiAngle |-> {7, 8, 11, 12}, kuchiwariOffset |-> {0, 16, 7, 8}]

Detected == lastOp.op = "detection" /\ Len(frameAngles) > 0

\* the angle record of the result delivered last
LastAngles == frameAngles[Len(frameAngles)]

\* C17: for every set of missing landmarks the call yields a record of the eight
\* metrics, and a metric is unavailable exactly when at least one of its own
\* landmarks is missing, whatever else is missing.
C17_PerMetric ==
  Detected =>
    /\ DOMAIN LastAngles = DOMAIN Landmarks \cup {"frame"}
    /\ \A m \in DOMAIN Landmarks :
         /\ Len(LastAngles[m]) \in {0, 1}
         /\ LastAngles[m] = <<>> <=> \E i \in Landmarks[m] : i \notin DOMAIN poseLandmarks

\* only the left shoulder is missing: the hip tilt, the right elbow and the wrist
\* height are there, the four metrics of the left shoulder are not
C17_Witness ==
  /\ Detected
  /\ DOMAIN poseLandmarks = LandmarkIds \ {11}
  /\ LastAngles.hipTilt # <<>>
  /\ LastAngles.rightElbow # <<>>
  /\ LastAngles.kuchiwariOffset # <<>>
  /\ LastAngles.spineTilt = <<>>
  /\ LastAngles.leftElbow = <<>>

\* C19: the angle at b of the points a, b, c is never outside 0 .. 180 degrees,
\* is exactly 0 when b->a or b->c has zero length, and is the same with a and c
\* swapped.
C19_JointAngle ==
  ( Detected /\ DOMAIN poseLandmarks = {11, 13, 15} ) =>
    LET a == poseLandmarks[11]
        b == poseLandmarks[13]
        c == poseLandmarks[15]
        angle == LastAngles.leftElbow[1]
    IN  /\ LastAngles.leftElbow = << calcAngle(a, b, c) >>
        /\ angle >= 0 /\ angle <= 1800
        /\ (a = b \/ c = b) => angle = 0
        /\ angle = calcAngle(c, b, a)

\* an arm whose wrist lies on its elbow while its shoulder does not
C19_Witness ==
  /\ Detected /\ DOMAIN poseLandmarks = {11, 13, 15}
  /\ poseLandmarks[15] = poseLandmarks[13]
  /\ poseLandmarks[11] # poseLandmarks[13]
  /\ LastAngles.leftElbow = <<0>>

C20_LatestNotExceeding ==
  [][ ( /\ Playing
        /\ lastOp'.op = "replayLoop"
        /\ replayIdxRef < Len(storedFramesRef)
        /\ Scale * StoredAt(replayIdxRef).timeMs <= replayLoop[1].lastFrameTime )
      => LET virtual == replayLoop'[1].lastFrameTime
         IN  /\ replayIdxRef' >= replayIdxRef
             /\ Scale * StoredAt(replayIdxRef').timeMs <= virtual
             /\ replayIdxRef' < LastIdx => Scale * StoredAt(replayIdxRef' + 1).timeMs > virtual
             /\ replayLoop[1].lastRealTime = NoTime => replayIdxRef' = replayIdxRef
    ]_vars

\* ---- claims about the replay index ------------------------------------------------
\* C21: no tick decreases the current index, whatever pause, resume, speed and
\* seek calls are interleaved with the ticks; pause, resume and a speed change
\* leave it where it is; and while the buffer is non-empty the index, as kept by
\* the scheduler and as shown, is within 0 .. size-1.
C21_MonotonicIndex ==
  [][ /\ lastOp'.op = "replayLoop" => replayIdxRef' >= replayIdxRef
      /\ lastOp'.op \in {"toggle", "speed"} => replayIdxRef' = replayIdxRef
      /\ Len(storedFramesRef') > 0 =>
           /\ replayIdxRef' \in 0 .. Len(storedFramesRef') - 1
           /\ replayFrame' \in 0 .. Len(storedFramesRef') - 1
    ]_vars

\* a tick of a running replay right after a seek forward to the last frame, the
\* virtual timestamp still behind that frame
C21_Witness ==
  /\ lastOp.op = "replayLoop"
  /\ Playing
  /\ replayIdxRef = LastIdx
  /\ LastIdx >= 2
  /\ replayLoop[1].lastRealTime # NoTime
  /\ replayLoop[1].lastFrameTime < Scale * StoredAt(LastIdx).timeMs

\* ---- claims about the captured timestamps -----------------------------------------
\* C22: in every reachable state of a session the timestamps of the capture buffer
\* are non-decreasing in index order.
C22_TimestampsOrdered ==
  \A i \in 1 .. Len(storedFramesRef) - 1 :
    storedFramesRef[i].timeMs <= storedFramesRef[i + 1].timeMs

\* ---- claims about the detection call ----------------------------------------------
\* number of loops inside pose.send
Awaiting(B) == SumCopies({l \in BagToSet(B) : l.pc = "await"}, B)

\* C23: a detection call that yields no landmarks, or that fails, leaves the
\* capture buffer, the list of angle records and the next frame index unchanged,
\* releases the in-flight guard, and its loop has its next callback scheduled.
C23_NoLandmarksTolerated ==
  [][ lastOp'.op \in {"noLandmarks", "sendFailed"} =>
        /\ UNCHANGED <<storedFramesRef, frameAngles, frameRef, displayCount>>
        /\ procRef' = FALSE
        /\ rafRef' = "handle"
        /\ Awaiting(procLoops') = Awaiting(procLoops) - 1
        /\ \E l \in BagToSet(procLoops') : l.pc = "raf" /\ l.ref
        /\ BagCardinality(procLoops') = BagCardinality(procLoops)
    ]_vars

\* a failed call while the video is playing, after one frame had been captured
C23_Witness ==
  /\ lastOp.op = "sendFailed"
  /\ status = "playing"
  /\ Len(storedFramesRef) = 1
  /\ procRef = FALSE
  /\ rafRef = "handle"

\* ---- claims about the head rotation -----------------------------------------------
\* C24: the monomi metric, whenever available, is greater than -180 and at most
\* 180 degrees, for every pair of orientations of the shoulder line and the ear
\* line.
C24_MonomiRange ==
  ( Detected /\ LastAngles.monomiAngle # <<>> ) =>
    ( LastAngles.monomiAngle[1] > -1800 /\ LastAngles.monomiAngle[1] <= 1800 )

\* ---- claims about the replay controls ---------------------------------------------
\* C25: a speed click leaves the paused flag (rendered and ref) and the current
\* index as they were; a replay paused before the click is still paused after
\* it.
C25_SpeedKeepsPause ==
  [][ lastOp'.op = "speed" =>
        /\ replayPaused' = replayPaused
        /\ replayPausedRef' = replayPausedRef
        /\ replayIdxRef' = replayIdxRef ]_vars

\* the index a tick dt after the previous one selects when the virtual time is
\* the timestamp of frame k advanced by that one tick
TickFrom(k, dt) ==
  LET c == replayLoop[1]
      realElapsed == IF c.lastRealTime = NoTime THEN 0 ELSE dt
  IN  NextIdx(k, Scale * StoredAt(k).timeMs + VirtualAdvance(realElapsed, c.speed))

SeekThenTick ==
  /\ lastOp.op = "seek" /\ Playing /\ replayIdxRef = lastOp.arg
  /\ lastOp'.op = "replayLoop"

\* C26: a seek to frame k during un-paused playback persists: the tick that
\* follows it selects the frame a single tick from k selects, neither further
\* (a jump back to the position before a backward seek) nor nearer (a stay at
\* k after a forward seek until the old virtual time catches up).
C26_SeekPersists ==
  [][ SeekThenTick =>
        /\ replayIdxRef' <= TickFrom(lastOp.arg, now' - replayLoop[1].lastRealTime)
        /\ replayIdxRef' >= TickFrom(lastOp.arg, now' - replayLoop[1].lastRealTime) ]_vars

C26_Backward ==
  [][ SeekThenTick =>
        replayIdxRef' <= TickFrom(lastOp.arg, now' - replayLoop[1].lastRealTime) ]_vars

C26_Forward ==
  [][ SeekThenTick =>
        replayIdxRef' >= TickFrom(lastOp.arg, now' - replayLoop[1].lastRealTime) ]_vars

\* ---- claims about the replay scheduling -------------------------------------------
\* C27: the scheduling and the state agree in every reachable state: the replay
\* is active (playing or paused) exactly when one tick of its loop is pending,
\* and the pending tick is the one whose handle replayRafRef holds.
C27_ScheduleAgrees ==
  /\ isReplaying <=> replayLoop # <<>>
  /\ replayLoop # <<>> => ( Len(replayLoop) = 1 /\ replayRafRef = "handle" )

====
